---- MODULE Spec2Model ----
(***************************************************************************)
(* Model of pkg/parser/normalizers.go of clickhouse-operator: NormalizeCHI *)
(* and the helpers it calls, over a ClickHouseInstallation tree whose      *)
(* zone label maps live in a heap (Go maps are references), so that the    *)
(* difference between copying and aliasing a map is observable.            *)
(***************************************************************************)
EXTENDS Integers, Sequences, FiniteSets, TLC

VARIABLES
    chi,               \* the ClickHouseInstallation tree NormalizeCHI mutates in place
    heap,              \* Go heap of map[string]string values: address -> label map
    deploymentNumber,  \* the NamedNumber returned by the last NormalizeCHI call
    passes,            \* how many times NormalizeCHI has run on the tree
    input,             \* the tree and heap as deserialized (before the first pass)
    first,             \* tree, heap and returned map after the first pass
    dst, src,          \* the two *ChiDeployment arguments of a deploymentMergeFrom call
    pre,               \* label sets of dst and src right before the call
    post,              \* label sets of dst and src right after the call
    pc                 \* position of the deploymentMergeFrom caller

vars == <<chi, heap, deploymentNumber, passes, input, first, dst, src, pre, post, pc>>

---------------------------------------------------------------------------
(* Bounds of the model *)

MaxClusters == 2
MaxShards == 2
MaxReplicas == 2
MaxPasses == 2

---------------------------------------------------------------------------
(* Constants of package parser that normalizers.go refers to *)

clusterLayoutTypeStandard == "Standard"
clusterLayoutTypeAdvanced == "Advanced"
shardDefinitionTypeReplicasCount == "ReplicasCount"
shardInternalReplicationDisabled == "Disabled"
stringTrue == "true"
stringFalse == "false"
deploymentScenarioDefault == "Default"

---------------------------------------------------------------------------
(* Go values *)

\* nil map[string]string
NilMap == 0

\* map[string]string with no entries
EmptyLabels == [k \in {} |-> ""]

\* zero value of string fields, and of Fingerprint in particular
NoFingerprint == ""

\* the labels stored behind a MatchLabels reference (len(nil map) = 0)
Labels(h, ref) == IF ref = NilMap THEN EmptyLabels ELSE h[ref]

\* make(map[string]string) followed by filling it: a fresh heap cell
Alloc(h, m) == [heap |-> Append(h, m), ref |-> Len(h) + 1]

\* make(NamedNumber)
EmptyNamedNumber == [f \in {} |-> 0]

\* NamedNumber lookup: a missing key reads as 0
Count(nn, f) == IF f \in DOMAIN nn THEN nn[f] ELSE 0

\* (*deploymentNumber)[fingerprint]++
Increment(nn, f) == [g \in DOMAIN nn \cup {f} |-> IF g = f THEN Count(nn, f) + 1 ELSE nn[g]]

\* NamedNumber.mergeAndReplaceWithBiggerValues: per key, keep the bigger value
mergeAndReplaceWithBiggerValues(nn, other) ==
    [f \in DOMAIN nn \cup DOMAIN other |->
        IF Count(other, f) > Count(nn, f) THEN other[f] ELSE nn[f]]

---------------------------------------------------------------------------
(* deploymentMergeFrom and zoneCopyFrom *)

\* zoneCopyFrom with the map assigned instead of copied: dst.MatchLabels = src.MatchLabels
zoneCopyFromAliasing(h, srcRef) == [heap |-> h, ref |-> srcRef]

\* zoneCopyFrom(dst, src): dst.MatchLabels becomes a new map holding src's entries.
\* Returns the new heap and the new reference stored in dst.
zoneCopyFrom(h, srcRef) == Alloc(h, Labels(h, srcRef))

\* deploymentMergeFrom(dst, src) with src non-nil: returns the heap and dst afterwards.
deploymentMergeFrom(h, d, s) ==
    LET copyZone == Cardinality(DOMAIN Labels(h, d.Zone.MatchLabels)) = 0
        z == IF copyZone THEN zoneCopyFrom(h, s.Zone.MatchLabels)
                         ELSE [heap |-> h, ref |-> d.Zone.MatchLabels]
    IN [heap |-> z.heap,
        d |-> [d EXCEPT
                !.PodTemplate = IF @ = "" THEN s.PodTemplate ELSE @,
                !.VolumeClaimTemplate = IF @ = "" THEN s.VolumeClaimTemplate ELSE @,
                !.Zone.MatchLabels = z.ref,
                !.Scenario = IF @ = "" THEN s.Scenario ELSE @]]

---------------------------------------------------------------------------
(* Fingerprints and deployment IDs *)

\* The label keys the model draws from, in the order sort.Strings puts them
LabelKeysSorted == <<"kind", "zone">>

\* sort.Strings over the keys of a label map
SortedKeys(m) == SelectSeq(LabelKeysSorted, LAMBDA k : k \in DOMAIN m)

\* strings.Join(a, sep)
RECURSIVE Join(_, _)
Join(a, sep) ==
    IF Len(a) = 0 THEN ""
    ELSE IF Len(a) = 1 THEN a[1]
    ELSE a[1] \o sep \o Join(Tail(a), sep)

\* deploymentGenerateString: "PodTemplate::VolumeClaimTemplate::Scenario::" and then
\* one "key=value" per zone label, keys sorted, all joined by "::"
deploymentGenerateString(h, d) ==
    LET m == Labels(h, d.Zone.MatchLabels)
        keys == SortedKeys(m)
        a == <<d.PodTemplate \o "::" \o d.VolumeClaimTemplate \o "::" \o d.Scenario \o "::">>
             \o [i \in 1..Len(keys) |-> keys[i] \o "=" \o m[keys[i]]]
    IN Join(a, "::")

\* hex.EncodeToString(sha1.Sum(s)): a digest that differs whenever its input differs
\* (collision resistance), written as a term over the hashed bytes
sha1Hex(s) == "sha1(" \o s \o ")"

\* deploymentGenerateFingerprint
deploymentGenerateFingerprint(c, h, d) ==
    sha1Hex(c.Namespace \o c.Name \o deploymentGenerateString(h, d))

\* deploymentGenerateID: the last 10 characters of the fingerprint. Distinct fingerprints
\* of one installation are taken to end differently, so the ID is a term over the fingerprint.
deploymentGenerateID(fingerprint) == "last10(" \o fingerprint \o ")"

\* generateFullDeploymentID that leaves the index out of the pattern
generateFullDeploymentIDWithoutIndex(replica) ==
    deploymentGenerateID(replica.Deployment.Fingerprint) \o "-"

\* generateFullDeploymentID: fmt.Sprintf("%s-%d", deploymentID, index)
generateFullDeploymentID(replica) ==
    deploymentGenerateID(replica.Deployment.Fingerprint)
        \o "-" \o ToString(replica.Deployment.Index)

---------------------------------------------------------------------------
(* Zero values *)

ZeroDeployment ==
    [PodTemplate |-> "", VolumeClaimTemplate |-> "", Scenario |-> "",
     Zone |-> [MatchLabels |-> NilMap], Fingerprint |-> NoFingerprint, Index |-> 0]

ZeroReplica == [Deployment |-> ZeroDeployment]

ZeroShard ==
    [DefinitionType |-> "", ReplicasCount |-> 0, InternalReplication |-> "",
     Deployment |-> ZeroDeployment, Replicas |-> <<>>]

\* make([]T, n)
MakeSlice(zero, n) == [i \in 1..n |-> zero]

---------------------------------------------------------------------------
(* Normalizers *)

\* normalizeSpecDefaultsReplicasUseFQDN
normalizeSpecDefaultsReplicasUseFQDN(c) ==
    IF c.Spec.Defaults.ReplicasUseFQDN = 1 THEN c
    ELSE [c EXCEPT !.Spec.Defaults.ReplicasUseFQDN = 0]

\* normalizeSpecDefaultsDeploymentScenario
normalizeSpecDefaultsDeploymentScenario(c) ==
    IF c.Spec.Defaults.Deployment.Scenario = ""
    THEN [c EXCEPT !.Spec.Defaults.Deployment.Scenario = deploymentScenarioDefault]
    ELSE c

\* normalizeClusterStandardLayoutCounts that defaults ShardsCount only
normalizeClusterStandardLayoutCountsShardsOnly(layout) ==
    [layout EXCEPT !.ShardsCount = IF @ = 0 THEN 1 ELSE @]

\* normalizeClusterStandardLayoutCounts
normalizeClusterStandardLayoutCounts(layout) ==
    [layout EXCEPT
        !.ShardsCount = IF @ = 0 THEN 1 ELSE @,
        !.ReplicasCount = IF @ = 0 THEN 1 ELSE @]

\* normalizeClusterAdvancedLayoutShardsInternalReplication
normalizeClusterAdvancedLayoutShardsInternalReplication(shard) ==
    IF shard.InternalReplication = shardInternalReplicationDisabled
    THEN [shard EXCEPT !.InternalReplication = stringFalse]
    ELSE [shard EXCEPT !.InternalReplication = stringTrue]

\* The loop body with index taken as the number of usages (the "- 1" forgotten)
ReplicaStepIndexFromOne(c, st, replicaIndex) ==
    LET merged == deploymentMergeFrom(st.heap, st.shard.Replicas[replicaIndex].Deployment,
                                      st.shard.Deployment)
        fingerprint == deploymentGenerateFingerprint(c, merged.heap, merged.d)
        dn == Increment(st.dn, fingerprint)
        index == dn[fingerprint]
    IN [heap |-> merged.heap,
        shard |-> [st.shard EXCEPT !.Replicas[replicaIndex].Deployment =
                      [merged.d EXCEPT !.Fingerprint = fingerprint, !.Index = index]],
        dn |-> dn]

\* The loop body with the index added to the Index the replica already holds
ReplicaStepAccumulatingIndex(c, st, replicaIndex) ==
    LET merged == deploymentMergeFrom(st.heap, st.shard.Replicas[replicaIndex].Deployment,
                                      st.shard.Deployment)
        fingerprint == deploymentGenerateFingerprint(c, merged.heap, merged.d)
        dn == Increment(st.dn, fingerprint)
        index == dn[fingerprint] - 1
    IN [heap |-> merged.heap,
        shard |-> [st.shard EXCEPT !.Replicas[replicaIndex].Deployment =
                      [merged.d EXCEPT !.Fingerprint = fingerprint, !.Index = @ + index]],
        dn |-> dn]

\* One iteration of the loop of normalizeSpecConfigurationClustersLayoutShardsReplicas
\* (replicaIndex counts from 1 here). st = [heap, shard, dn].
ReplicaStep(c, st, replicaIndex) ==
    LET merged == deploymentMergeFrom(st.heap, st.shard.Replicas[replicaIndex].Deployment,
                                      st.shard.Deployment)
        fingerprint == deploymentGenerateFingerprint(c, merged.heap, merged.d)
        dn == Increment(st.dn, fingerprint)
        index == dn[fingerprint] - 1
    IN [heap |-> merged.heap,
        shard |-> [st.shard EXCEPT !.Replicas[replicaIndex].Deployment =
                      [merged.d EXCEPT !.Fingerprint = fingerprint, !.Index = index]],
        dn |-> dn]

RECURSIVE ReplicasLoop(_, _, _)
ReplicasLoop(c, st, replicaIndex) ==
    IF replicaIndex > st.shard.ReplicasCount THEN st
    ELSE ReplicasLoop(c, ReplicaStep(c, st, replicaIndex), replicaIndex + 1)

\* normalizeSpecConfigurationClustersLayoutShardsReplicas(chi, shard, &deploymentNumber)
normalizeSpecConfigurationClustersLayoutShardsReplicas(c, h, shard, dn) ==
    ReplicasLoop(c, [heap |-> h, shard |-> shard, dn |-> dn], 1)

\* Body of the loop over shards of a Standard layout. st = [heap, cluster, dn].
StandardShardStep(c, st, shardIndex) ==
    LET shard0 == st.cluster.Layout.Shards[shardIndex]
        shard1 == [shard0 EXCEPT
                      !.ReplicasCount = st.cluster.Layout.ReplicasCount,
                      !.InternalReplication = stringTrue]
        shard2 == [shard1 EXCEPT !.Replicas = MakeSlice(ZeroReplica, shard1.ReplicasCount)]
        r == normalizeSpecConfigurationClustersLayoutShardsReplicas(c, st.heap, shard2, st.dn)
    IN [heap |-> r.heap,
        cluster |-> [st.cluster EXCEPT !.Layout.Shards[shardIndex] = r.shard],
        dn |-> r.dn]

\* The Advanced loop body that allocates ReplicasCount replicas whatever the DefinitionType
AdvancedShardStepAlwaysAllocating(c, st, shardIndex) ==
    LET shard0 == st.cluster.Layout.Shards[shardIndex]
        shard1 == normalizeClusterAdvancedLayoutShardsInternalReplication(shard0)
        merged == deploymentMergeFrom(st.heap, shard1.Deployment, st.cluster.Deployment)
        shard2 == [shard1 EXCEPT !.Deployment = merged.d]
        shard3 == [shard2 EXCEPT !.Replicas = MakeSlice(ZeroReplica, shard2.ReplicasCount)]
        r == normalizeSpecConfigurationClustersLayoutShardsReplicas(c, merged.heap, shard3, st.dn)
    IN [heap |-> r.heap,
        cluster |-> [st.cluster EXCEPT !.Layout.Shards[shardIndex] = r.shard],
        dn |-> r.dn]

\* Body of the loop over shards of an Advanced layout. st = [heap, cluster, dn].
AdvancedShardStep(c, st, shardIndex) ==
    LET shard0 == st.cluster.Layout.Shards[shardIndex]
        shard1 == normalizeClusterAdvancedLayoutShardsInternalReplication(shard0)
        merged == deploymentMergeFrom(st.heap, shard1.Deployment, st.cluster.Deployment)
        shard2 == [shard1 EXCEPT !.Deployment = merged.d]
        shard3 == IF shard2.DefinitionType = shardDefinitionTypeReplicasCount
                  THEN [shard2 EXCEPT !.Replicas = MakeSlice(ZeroReplica, shard2.ReplicasCount)]
                  ELSE [shard2 EXCEPT !.ReplicasCount = Len(shard2.Replicas)]
        r == normalizeSpecConfigurationClustersLayoutShardsReplicas(c, merged.heap, shard3, st.dn)
    IN [heap |-> r.heap,
        cluster |-> [st.cluster EXCEPT !.Layout.Shards[shardIndex] = r.shard],
        dn |-> r.dn]

\* for shardIndex := 0; shardIndex < cluster.Layout.ShardsCount; shardIndex++
RECURSIVE StandardShardsLoop(_, _, _)
StandardShardsLoop(c, st, shardIndex) ==
    IF shardIndex > st.cluster.Layout.ShardsCount THEN st
    ELSE StandardShardsLoop(c, StandardShardStep(c, st, shardIndex), shardIndex + 1)

\* for shardIndex := range cluster.Layout.Shards
RECURSIVE AdvancedShardsLoop(_, _, _)
AdvancedShardsLoop(c, st, shardIndex) ==
    IF shardIndex > Len(st.cluster.Layout.Shards) THEN st
    ELSE AdvancedShardsLoop(c, AdvancedShardStep(c, st, shardIndex), shardIndex + 1)

\* normalizeSpecConfigurationClustersCluster(chi, cluster): returns the heap, the
\* cluster and the cluster's own usage counters
normalizeSpecConfigurationClustersCluster(c, h, cluster) ==
    LET merged == deploymentMergeFrom(h, cluster.Deployment, c.Spec.Defaults.Deployment)
        cluster1 == [cluster EXCEPT !.Deployment = merged.d]
        st == [heap |-> merged.heap, cluster |-> cluster1, dn |-> EmptyNamedNumber]
    IN CASE cluster1.Layout.Type = clusterLayoutTypeStandard ->
              LET layout == normalizeClusterStandardLayoutCounts(cluster1.Layout)
                  cluster2 == [cluster1 EXCEPT !.Layout =
                                  [layout EXCEPT !.Shards = MakeSlice(ZeroShard, layout.ShardsCount)]]
              IN StandardShardsLoop(c, [st EXCEPT !.cluster = cluster2], 1)
         [] cluster1.Layout.Type = clusterLayoutTypeAdvanced ->
              AdvancedShardsLoop(c, st, 1)
         [] OTHER -> st

\* The loop body of NormalizeCHI adding the clusters' counters up
ClusterStepSumming(st, i) ==
    LET r == normalizeSpecConfigurationClustersCluster(
                 st.chi, st.heap, st.chi.Spec.Configuration.Clusters[i])
    IN [heap |-> r.heap,
        chi |-> [st.chi EXCEPT !.Spec.Configuration.Clusters[i] = r.cluster],
        dn |-> [f \in DOMAIN st.dn \cup DOMAIN r.dn |-> Count(st.dn, f) + Count(r.dn, f)]]

\* Body of the loop over clusters in NormalizeCHI. st = [heap, chi, dn].
ClusterStep(st, i) ==
    LET r == normalizeSpecConfigurationClustersCluster(
                 st.chi, st.heap, st.chi.Spec.Configuration.Clusters[i])
    IN [heap |-> r.heap,
        chi |-> [st.chi EXCEPT !.Spec.Configuration.Clusters[i] = r.cluster],
        dn |-> mergeAndReplaceWithBiggerValues(st.dn, r.dn)]

RECURSIVE ClustersLoop(_, _)
ClustersLoop(st, i) ==
    IF i > Len(st.chi.Spec.Configuration.Clusters) THEN st
    ELSE ClustersLoop(ClusterStep(st, i), i + 1)

\* NormalizeCHI(chi): returns the heap, the tree and the returned NamedNumber
NormalizeCHI(c, h) ==
    LET c1 == normalizeSpecDefaultsReplicasUseFQDN(c)
        c2 == normalizeSpecDefaultsDeploymentScenario(c1)
    IN ClustersLoop([heap |-> h, chi |-> c2, dn |-> EmptyNamedNumber], 1)

---------------------------------------------------------------------------
(* Input installations: what deserializing a manifest can produce.          *)
(* A manifest holds label maps by value; loading it gives every non-empty   *)
(* label map a heap cell of its own (no two fields share a map).            *)

SeqUpTo(S, n) == UNION {[1..m -> S] : m \in 0..n}

D(pod, vct, scenario, labels) ==
    [PodTemplate |-> pod, VolumeClaimTemplate |-> vct, Scenario |-> scenario, Labels |-> labels]

DEmpty == D("", "", "", EmptyLabels)

DefaultsInputs ==
    { [ReplicasUseFQDN |-> 0, Deployment |-> DEmpty],
      [ReplicasUseFQDN |-> 1,
       Deployment |-> D("podD", "vctD", "", [kind |-> "ssd", zone |-> "a"])],
      [ReplicasUseFQDN |-> 2, Deployment |-> D("", "", "NodeMonopoly", EmptyLabels)] }

DCluster == D("podC", "", "", [zone |-> "b"])

ClusterDeployments == {DEmpty, DCluster}

DShard == D("", "vctS", "ZoneMonopoly", [kind |-> "hdd"])

ShardDeployments == {DEmpty, DShard}

DReplica == D("podR", "", "ZoneMonopoly", [zone |-> "c"])

\* The second one is what a replica inherits from the second DefaultsInputs when nothing
\* in between sets a field, with the labels written in the opposite order
ReplicaDeployments ==
    {DEmpty, DReplica, D("podD", "vctD", "Default", [zone |-> "a", kind |-> "ssd"])}

ShardManifest(definitionType, replicasCount, internalReplication, deployment, replicas) ==
    [DefinitionType |-> definitionType, ReplicasCount |-> replicasCount,
     InternalReplication |-> internalReplication, Deployment |-> deployment,
     Replicas |-> replicas]

\* Shards of an Advanced layout: count-defined, explicitly listed (also with a
\* ReplicasCount that disagrees with the list), and every internalReplication input
ShardInputs ==
    { ShardManifest(shardDefinitionTypeReplicasCount, n, "", d, <<>>) :
        n \in 0..MaxReplicas, d \in ShardDeployments }
    \cup
    { ShardManifest("Replicas", 0, "", d, rs) :
        d \in ShardDeployments, rs \in SeqUpTo(ReplicaDeployments, MaxReplicas) }
    \cup
    { ShardManifest("Replicas", MaxReplicas, ir, DEmpty, <<DReplica>>) :
        ir \in {shardInternalReplicationDisabled, "false"} }
    \cup
    { ShardManifest(shardDefinitionTypeReplicasCount, 1, shardInternalReplicationDisabled,
                    DEmpty, <<>>) }

\* The shards that accompany a shard of ShardInputs in the same cluster
CompanionShards ==
    { ShardManifest(shardDefinitionTypeReplicasCount, 1, "", DEmpty, <<>>),
      ShardManifest(shardDefinitionTypeReplicasCount, MaxReplicas,
                    shardInternalReplicationDisabled, DShard, <<>>),
      ShardManifest("", 0, "yes", DEmpty, <<DEmpty, DReplica>>) }

ShardSequences ==
    {<<>>} \cup
    { before \o <<s>> \o after :
        s \in ShardInputs,
        before \in SeqUpTo(CompanionShards, MaxShards - 1),
        after \in SeqUpTo(CompanionShards, MaxShards - 1) }

ClusterManifest(type, shardsCount, replicasCount, deployment, shards) ==
    [Type |-> type, ShardsCount |-> shardsCount, ReplicasCount |-> replicasCount,
     Deployment |-> deployment, Shards |-> shards]

AdvancedClusters ==
    { ClusterManifest(clusterLayoutTypeAdvanced, 0, 0, d, ss) :
        d \in ClusterDeployments,
        ss \in {x \in ShardSequences : Len(x) <= MaxShards} }

StandardClusters ==
    { ClusterManifest(clusterLayoutTypeStandard, sc, rc, d, ss) :
        sc \in 0..MaxShards, rc \in 0..MaxReplicas, d \in ClusterDeployments,
        ss \in {<<>>, <<ShardManifest("", 0, "yes", DEmpty, <<DEmpty, DReplica>>)>>} }

\* layout.type left out of the manifest (or misspelt): neither Standard nor Advanced
UntypedClusters ==
    { ClusterManifest("", sc, 0, d, ss) :
        sc \in {0, MaxShards}, d \in {DEmpty}, ss \in SeqUpTo(CompanionShards, MaxShards) }

ClusterInputs == AdvancedClusters \cup StandardClusters \cup UntypedClusters

\* Clusters of installations that hold several clusters
SharingClusters ==
    { ClusterManifest(clusterLayoutTypeStandard, 0, 0, DEmpty, <<>>),
      ClusterManifest(clusterLayoutTypeStandard, MaxShards, MaxReplicas,
                      DCluster, <<>>),
      ClusterManifest(clusterLayoutTypeAdvanced, 0, 0, DEmpty,
                      <<ShardManifest(shardDefinitionTypeReplicasCount, MaxReplicas, "",
                                      DEmpty, <<>>)>>),
      ClusterManifest(clusterLayoutTypeAdvanced, 0, 0, DCluster,
                      <<ShardManifest(shardDefinitionTypeReplicasCount, 1,
                                      shardInternalReplicationDisabled, DEmpty, <<>>),
                        ShardManifest("Replicas", 0, "", DEmpty, <<DEmpty, DReplica>>)>>),
      ClusterManifest(clusterLayoutTypeAdvanced, 0, 0, DEmpty,
                      <<ShardManifest("Replicas", 0, "", DEmpty, <<DReplica, DEmpty>>)>>),
      ClusterManifest("", 0, 0, DEmpty,
                      <<ShardManifest("Replicas", 0, "", DEmpty, <<DEmpty>>)>>) }

ClusterSequences ==
    SeqUpTo(ClusterInputs, 1)
    \cup UNION {[1..n -> SharingClusters] : n \in 2..MaxClusters}

Manifests ==
    { [Namespace |-> "test", Name |-> "chi1", Defaults |-> df, Clusters |-> cs] :
        df \in DefaultsInputs, cs \in ClusterSequences }

\* Heap cells of the loaded tree: one per Deployment that can occur in it
ShardSpan == 1 + MaxReplicas
ClusterSpan == 1 + MaxShards * ShardSpan
AddrCluster(i) == 2 + (i - 1) * ClusterSpan
AddrDefaults == AddrCluster(1) - 1
AddrShard(i, j) == AddrCluster(i) + 1 + (j - 1) * ShardSpan
AddrReplica(i, j, k) == AddrShard(i, j) + k
InputHeapLen == 1 + MaxClusters * ClusterSpan

LoadDeployment(d, addr) ==
    [PodTemplate |-> d.PodTemplate, VolumeClaimTemplate |-> d.VolumeClaimTemplate,
     Scenario |-> d.Scenario,
     Zone |-> [MatchLabels |-> IF DOMAIN d.Labels = {} THEN NilMap ELSE addr],
     Fingerprint |-> NoFingerprint, Index |-> 0]

LoadShard(s, i, j) ==
    [DefinitionType |-> s.DefinitionType, ReplicasCount |-> s.ReplicasCount,
     InternalReplication |-> s.InternalReplication,
     Deployment |-> LoadDeployment(s.Deployment, AddrShard(i, j)),
     Replicas |-> [k \in 1..Len(s.Replicas) |->
                     [Deployment |-> LoadDeployment(s.Replicas[k], AddrReplica(i, j, k))]]]

LoadCluster(cl, i) ==
    [Deployment |-> LoadDeployment(cl.Deployment, AddrCluster(i)),
     Layout |-> [Type |-> cl.Type, ShardsCount |-> cl.ShardsCount,
                 ReplicasCount |-> cl.ReplicasCount,
                 Shards |-> [j \in 1..Len(cl.Shards) |-> LoadShard(cl.Shards[j], i, j)]]]

LoadCHI(m) ==
    [Namespace |-> m.Namespace, Name |-> m.Name,
     Spec |-> [Defaults |-> [ReplicasUseFQDN |-> m.Defaults.ReplicasUseFQDN,
                             Deployment |-> LoadDeployment(m.Defaults.Deployment, AddrDefaults)],
               Configuration |-> [Clusters |->
                   [i \in 1..Len(m.Clusters) |-> LoadCluster(m.Clusters[i], i)]]]]

\* The label map the manifest puts at a heap address (empty where it puts none)
ManifestLabelsAt(m, a) ==
    IF a = AddrDefaults THEN m.Defaults.Deployment.Labels
    ELSE LET i == ((a - 2) \div ClusterSpan) + 1
             off == (a - 2) % ClusterSpan
         IN IF i > Len(m.Clusters) THEN EmptyLabels
            ELSE IF off = 0 THEN m.Clusters[i].Deployment.Labels
            ELSE LET j == ((off - 1) \div ShardSpan) + 1
                     k == (off - 1) % ShardSpan
                     shards == m.Clusters[i].Shards
                 IN IF j > Len(shards) THEN EmptyLabels
                    ELSE IF k = 0 THEN shards[j].Deployment.Labels
                    ELSE IF k > Len(shards[j].Replicas) THEN EmptyLabels
                    ELSE shards[j].Replicas[k].Labels

LoadHeap(m) == [a \in 1..InputHeapLen |-> ManifestLabelsAt(m, a)]

---------------------------------------------------------------------------
(* Specification of NormalizeCHI, run up to MaxPasses times on one tree *)

Idle == [chi |-> <<>>, heap |-> <<>>, dn |-> EmptyNamedNumber]

Init ==
    \E m \in Manifests :
        /\ chi = LoadCHI(m)
        /\ heap = LoadHeap(m)
        /\ input = [chi |-> LoadCHI(m), heap |-> LoadHeap(m), dn |-> EmptyNamedNumber]
        /\ deploymentNumber = EmptyNamedNumber
        /\ passes = 0
        /\ first = Idle
        /\ dst = ZeroDeployment /\ src = ZeroDeployment
        /\ pre = <<>> /\ post = <<>>
        /\ pc = "chi"

\* The reconciliation loop calls NormalizeCHI(chi) on the tree
CallNormalizeCHI ==
    /\ pc = "chi"
    /\ passes < MaxPasses
    /\ LET r == NormalizeCHI(chi, heap)
       IN /\ chi' = r.chi
          /\ heap' = r.heap
          /\ deploymentNumber' = r.dn
          /\ first' = IF passes = 0 THEN r ELSE first
    /\ passes' = passes + 1
    /\ UNCHANGED <<input, dst, src, pre, post, pc>>

Next == CallNormalizeCHI

Spec == Init /\ [][Next]_vars

---------------------------------------------------------------------------
(* Reading the tree *)

ClustersOf(t) == t.Spec.Configuration.Clusters

Normalizable(cluster) ==
    cluster.Layout.Type \in {clusterLayoutTypeStandard, clusterLayoutTypeAdvanced}

\* Positions <<cluster, shard, replica>> of the replicas of a tree
ReplicaPositions(t) ==
    UNION { UNION { { <<i, j, k>> : k \in 1..Len(ClustersOf(t)[i].Layout.Shards[j].Replicas) } :
                    j \in 1..Len(ClustersOf(t)[i].Layout.Shards) } :
            i \in 1..Len(ClustersOf(t)) }

ShardPositions(t) ==
    UNION { { <<i, j>> : j \in 1..Len(ClustersOf(t)[i].Layout.Shards) } :
            i \in 1..Len(ClustersOf(t)) }

ShardAt(t, p) == ClustersOf(t)[p[1]].Layout.Shards[p[2]]

ReplicaAt(t, p) == ShardAt(t, p).Replicas[p[3]]

\* Positions of the replicas normalization resolves: those of Standard and Advanced clusters
ResolvedPositions(t) == {p \in ReplicaPositions(t) : Normalizable(ClustersOf(t)[p[1]])}

\* The four fields that make up a deployment's identity, the zone as a label set
Descriptor(h, d) ==
    <<d.PodTemplate, d.VolumeClaimTemplate, d.Scenario, Labels(h, d.Zone.MatchLabels)>>

\* p is visited before q (same cluster): shard-major, replica-minor
VisitedBefore(p, q) ==
    /\ p[1] = q[1]
    /\ \/ p[2] < q[2]
       \/ p[2] = q[2] /\ p[3] < q[3]

Normalized == pc = "chi" /\ passes >= 1

---------------------------------------------------------------------------
(* C1: after NormalizeCHI every replica of a Standard or Advanced cluster    *)
(* has PodTemplate, VolumeClaimTemplate, Scenario and Zone equal to the      *)
(* first non-empty value along replica -> shard -> cluster -> defaults.      *)

\* The replica, shard and cluster values of the chain are the operator-supplied ones;
\* what normalization allocates itself starts empty.
InputCluster(i) == ClustersOf(input.chi)[i]

ShardSupplied(i, j) ==
    /\ InputCluster(i).Layout.Type = clusterLayoutTypeAdvanced
    /\ j <= Len(InputCluster(i).Layout.Shards)

ReplicaSupplied(i, j, k) ==
    /\ ShardSupplied(i, j)
    /\ InputCluster(i).Layout.Shards[j].DefinitionType # shardDefinitionTypeReplicasCount
    /\ k <= Len(InputCluster(i).Layout.Shards[j].Replicas)

Chain(p) ==
    << IF ReplicaSupplied(p[1], p[2], p[3])
         THEN InputCluster(p[1]).Layout.Shards[p[2]].Replicas[p[3]].Deployment
         ELSE ZeroDeployment,
       IF ShardSupplied(p[1], p[2])
         THEN InputCluster(p[1]).Layout.Shards[p[2]].Deployment
         ELSE ZeroDeployment,
       InputCluster(p[1]).Deployment,
       normalizeSpecDefaultsDeploymentScenario(input.chi).Spec.Defaults.Deployment >>

RECURSIVE FirstNonEmpty(_, _)
FirstNonEmpty(values, empty) ==
    IF Len(values) = 0 THEN empty
    ELSE IF Head(values) # empty THEN Head(values)
    ELSE FirstNonEmpty(Tail(values), empty)

ChainOf(p, Field(_)) == [n \in 1..4 |-> Field(Chain(p)[n])]

InheritsAlongChain(p) ==
    LET d == ReplicaAt(chi, p).Deployment
        InLabels(x) == Labels(input.heap, x.Zone.MatchLabels)
    IN /\ d.PodTemplate = FirstNonEmpty(ChainOf(p, LAMBDA x : x.PodTemplate), "")
       /\ d.VolumeClaimTemplate = FirstNonEmpty(ChainOf(p, LAMBDA x : x.VolumeClaimTemplate), "")
       /\ d.Scenario = FirstNonEmpty(ChainOf(p, LAMBDA x : x.Scenario), "")
       /\ d.Scenario # ""
       /\ Labels(heap, d.Zone.MatchLabels) = FirstNonEmpty(ChainOf(p, InLabels), EmptyLabels)

\* C1: every replica of every Standard or Advanced cluster carries the
\* first non-empty value of the four-level chain in each field.
C1_FourLevelInheritance ==
    Normalized => \A p \in ResolvedPositions(chi) : InheritsAlongChain(p)

\* What the code does establish: the chain is resolved for Advanced layouts
AdvancedInheritance ==
    Normalized =>
        \A p \in ResolvedPositions(chi) :
            ClustersOf(chi)[p[1]].Layout.Type = clusterLayoutTypeAdvanced
                => InheritsAlongChain(p)

---------------------------------------------------------------------------
(* C2: replicas with identical resolved descriptors share a Fingerprint,     *)
(* differ in Index, and the Index values of the replicas sharing a           *)
(* fingerprint run 0, 1, 2, ... in visitation order.                         *)

FingerprintAt(t, p) == ReplicaAt(t, p).Deployment.Fingerprint

IndexAt(t, p) == ReplicaAt(t, p).Deployment.Index

SameDescriptor(p, q) ==
    Descriptor(heap, ReplicaAt(chi, p).Deployment) = Descriptor(heap, ReplicaAt(chi, q).Deployment)

\* The replicas of p's scope that carry p's fingerprint and come before p
EarlierSharers(scope, Before(_, _), p) ==
    {q \in scope : Before(q, p) /\ FingerprintAt(chi, q) = FingerprintAt(chi, p)}

\* Visitation order over the whole installation: cluster-major
VisitedBeforeInInstallation(p, q) ==
    \/ p[1] < q[1]
    \/ VisitedBefore(p, q)

\* C2: the index runs over the replicas of the installation that share a fingerprint
C2_SequentialIndexInInstallation ==
    Normalized =>
        /\ \A p, q \in ResolvedPositions(chi) :
              (p # q /\ SameDescriptor(p, q)) =>
                  /\ FingerprintAt(chi, p) = FingerprintAt(chi, q)
                  /\ IndexAt(chi, p) # IndexAt(chi, q)
        /\ \A p \in ResolvedPositions(chi) :
              IndexAt(chi, p) =
                  Cardinality(EarlierSharers(ResolvedPositions(chi), VisitedBeforeInInstallation, p))

\* C2 amended: the same, the scope being one cluster. Any two distinct replicas of the
\* same Standard or Advanced cluster with identical resolved descriptors have the same
\* Fingerprint and different Index values, and the Index of a replica is the number of
\* replicas of its cluster that carry its fingerprint and are visited before it.
C2_SequentialIndexInCluster ==
    Normalized =>
        /\ \A p, q \in ResolvedPositions(chi) :
              (p # q /\ SameDescriptor(p, q)) =>
                  /\ FingerprintAt(chi, p) = FingerprintAt(chi, q)
                  /\ p[1] = q[1] => IndexAt(chi, p) # IndexAt(chi, q)
        /\ \A p \in ResolvedPositions(chi) :
              IndexAt(chi, p) =
                  Cardinality(EarlierSharers(ResolvedPositions(chi), VisitedBefore, p))

\* A cluster where a fingerprint recurs across shards, with another fingerprint in between
C2_Witness ==
    /\ Normalized
    /\ \E p, q, r \in ResolvedPositions(chi) :
          /\ VisitedBefore(p, r) /\ VisitedBefore(r, q) /\ p[2] < q[2]
          /\ FingerprintAt(chi, p) = FingerprintAt(chi, q)
          /\ FingerprintAt(chi, r) # FingerprintAt(chi, p)
          /\ IndexAt(chi, q) >= 1

---------------------------------------------------------------------------
(* C3: the full deployment ID is unique for each replica                     *)

\* generateFullDeploymentID slices the last 10 characters off the Fingerprint, so it
\* applies to replicas that carry one
Fingerprinted(t) == {p \in ReplicaPositions(t) : FingerprintAt(t, p) # NoFingerprint}

FullIDAt(p) == generateFullDeploymentID(ReplicaAt(chi, p))

---------------------------------------------------------------------------
(* C4: the returned map has the fingerprints that occur on replicas as keys, *)
(* each mapped to the maximum over the clusters of its number of uses in     *)
(* one cluster; every replica's Index is below the count of its Fingerprint. *)

UsesInCluster(i, f) ==
    Cardinality({p \in Fingerprinted(chi) : p[1] = i /\ FingerprintAt(chi, p) = f})

\* C4: keys of the returned map = fingerprints on replicas; value = maximum over the
\* clusters of the uses within one cluster; Index < count of the replica's Fingerprint
C4_ReturnedMapIsMaxOverClusters ==
    Normalized =>
        /\ DOMAIN deploymentNumber = {FingerprintAt(chi, p) : p \in Fingerprinted(chi)}
        /\ \A f \in DOMAIN deploymentNumber :
              /\ \E i \in 1..Len(ClustersOf(chi)) : deploymentNumber[f] = UsesInCluster(i, f)
              /\ \A i \in 1..Len(ClustersOf(chi)) : deploymentNumber[f] >= UsesInCluster(i, f)
        /\ \A p \in Fingerprinted(chi) :
              IndexAt(chi, p) < Count(deploymentNumber, FingerprintAt(chi, p))

\* Two clusters use one fingerprint, one of them more often than the other
C4_Witness ==
    /\ Normalized
    /\ \E f \in DOMAIN deploymentNumber :
          \E i, j \in 1..Len(ClustersOf(chi)) :
              /\ UsesInCluster(i, f) > UsesInCluster(j, f)
              /\ UsesInCluster(j, f) >= 1
              /\ deploymentNumber[f] = UsesInCluster(i, f)

---------------------------------------------------------------------------
(* C6: an Advanced shard whose DefinitionType is not ReplicasCount keeps the *)
(* operator-supplied replicas: same length, same order, every non-empty      *)
(* Deployment field kept, and ReplicasCount = number of supplied replicas.   *)

ExplicitShards ==
    {p \in ShardPositions(input.chi) :
        /\ InputCluster(p[1]).Layout.Type = clusterLayoutTypeAdvanced
        /\ ShardAt(input.chi, p).DefinitionType # shardDefinitionTypeReplicasCount}

KeepsSuppliedFields(p, k) ==
    LET was == ShardAt(input.chi, p).Replicas[k].Deployment
        now == ShardAt(chi, p).Replicas[k].Deployment
        wasLabels == Labels(input.heap, was.Zone.MatchLabels)
    IN /\ was.PodTemplate # "" => now.PodTemplate = was.PodTemplate
       /\ was.VolumeClaimTemplate # "" => now.VolumeClaimTemplate = was.VolumeClaimTemplate
       /\ was.Scenario # "" => now.Scenario = was.Scenario
       /\ DOMAIN wasLabels # {} => Labels(heap, now.Zone.MatchLabels) = wasLabels

\* C6: supplied replicas are kept in number, order and supplied fields, and
\* ReplicasCount becomes their number
C6_ExplicitReplicasKept ==
    Normalized =>
        \A p \in ExplicitShards :
            /\ Len(ShardAt(chi, p).Replicas) = Len(ShardAt(input.chi, p).Replicas)
            /\ ShardAt(chi, p).ReplicasCount = Len(ShardAt(input.chi, p).Replicas)
            /\ \A k \in 1..Len(ShardAt(input.chi, p).Replicas) : KeepsSuppliedFields(p, k)

\* A shard with two supplied replicas, the second with fields of its own, and an
\* input ReplicasCount that is not the number of supplied replicas
C6_Witness ==
    /\ Normalized
    /\ \E p \in ExplicitShards :
          /\ Len(ShardAt(input.chi, p).Replicas) = 2
          /\ ShardAt(input.chi, p).ReplicasCount # 2
          /\ ShardAt(input.chi, p).Replicas[2].Deployment.PodTemplate # ""
          /\ ShardAt(input.chi, p).Replicas[1].Deployment.PodTemplate = ""
          /\ ShardAt(chi, p).ReplicasCount = 2

---------------------------------------------------------------------------
(* C7: a Standard cluster ends with ShardsCount >= 1 and ReplicasCount >= 1  *)
(* (0 becomes 1, anything else is kept), exactly ShardsCount shards, each    *)
(* with the cluster's ReplicasCount, that many replicas and                  *)
(* InternalReplication = "true".                                             *)

StandardClusterIndexes ==
    {i \in 1..Len(ClustersOf(input.chi)) :
        InputCluster(i).Layout.Type = clusterLayoutTypeStandard}

\* C7: the counts and the generated shards and replicas of a Standard cluster
C7_StandardLayoutCounts ==
    Normalized =>
        \A i \in StandardClusterIndexes :
            LET was == InputCluster(i).Layout
                now == ClustersOf(chi)[i].Layout
            IN /\ now.ShardsCount = (IF was.ShardsCount = 0 THEN 1 ELSE was.ShardsCount)
               /\ now.ReplicasCount = (IF was.ReplicasCount = 0 THEN 1 ELSE was.ReplicasCount)
               /\ now.ShardsCount >= 1 /\ now.ReplicasCount >= 1
               /\ Len(now.Shards) = now.ShardsCount
               /\ \A j \in 1..Len(now.Shards) :
                     /\ now.Shards[j].ReplicasCount = now.ReplicasCount
                     /\ Len(now.Shards[j].Replicas) = now.ReplicasCount
                     /\ now.Shards[j].InternalReplication = stringTrue

\* Both counts 0 in the input, with a shard in the input that is not kept
C7_Witness ==
    /\ Normalized
    /\ \E i \in StandardClusterIndexes :
          /\ InputCluster(i).Layout.ShardsCount = 0
          /\ InputCluster(i).Layout.ReplicasCount = 0
          /\ Len(InputCluster(i).Layout.Shards) = 1
          /\ Len(InputCluster(i).Layout.Shards[1].Replicas) = 2
          /\ Len(ClustersOf(chi)[i].Layout.Shards) = 1
          /\ Len(ClustersOf(chi)[i].Layout.Shards[1].Replicas) = 1

---------------------------------------------------------------------------
(* C8: a second NormalizeCHI on the normalized tree changes no Fingerprint,  *)
(* no Index, no number of shards or replicas, and returns the same map.      *)

Renormalized == pc = "chi" /\ passes >= 2

\* C8: a second pass leaves Fingerprint, Index, the numbers of shards and replicas
\* and the returned map as the first pass left them
C8_SecondPassKeepsIdentity ==
    Renormalized =>
        /\ Len(ClustersOf(chi)) = Len(ClustersOf(first.chi))
        /\ ShardPositions(chi) = ShardPositions(first.chi)
        /\ ReplicaPositions(chi) = ReplicaPositions(first.chi)
        /\ \A p \in ReplicaPositions(chi) :
              /\ FingerprintAt(chi, p) = FingerprintAt(first.chi, p)
              /\ IndexAt(chi, p) = IndexAt(first.chi, p)
        /\ deploymentNumber = first.dn

\* A tree with supplied replicas that got an Index above 0, normalized twice
C8_Witness ==
    /\ Renormalized
    /\ \E p \in ExplicitShards :
          \E k \in 1..Len(ShardAt(chi, p).Replicas) : ShardAt(chi, p).Replicas[k].Deployment.Index >= 1

---------------------------------------------------------------------------
(* C9: every shard of every cluster has InternalReplication "true" or "false" *)

\* C9: after NormalizeCHI every shard of every cluster, whatever its Layout.Type, has
\* InternalReplication equal to "true" or "false"
C9_InternalReplicationCanonical ==
    Normalized =>
        \A p \in ShardPositions(chi) :
            ShardAt(chi, p).InternalReplication \in {stringTrue, stringFalse}

\* What the code does establish: the same for Standard and Advanced clusters
InternalReplicationCanonicalWhereNormalizable ==
    Normalized =>
        \A p \in ShardPositions(chi) :
            Normalizable(ClustersOf(chi)[p[1]]) =>
                ShardAt(chi, p).InternalReplication \in {stringTrue, stringFalse}

---------------------------------------------------------------------------
(* C10: for every shard of an Advanced cluster, InternalReplication after a  *)
(* second pass equals InternalReplication after the first pass.              *)

\* C10: InternalReplication of the shards of Advanced clusters is the same after the
\* second pass as after the first
C10_InternalReplicationIdempotent ==
    Renormalized =>
        \A p \in ShardPositions(chi) :
            ClustersOf(chi)[p[1]].Layout.Type = clusterLayoutTypeAdvanced =>
                ShardAt(chi, p).InternalReplication = ShardAt(first.chi, p).InternalReplication

---------------------------------------------------------------------------
(* Specification of one deploymentMergeFrom(dst, src) call on two            *)
(* deployments of the hierarchy, followed by a change of one of the two      *)
(* label maps by its owner (m[k] = v or delete(m, k)).                       *)

LabelKeys == {"kind", "zone"}

LabelValues == {"a", "b"}

LabelMaps == UNION {[K -> LabelValues] : K \in SUBSET LabelKeys}

\* A deployment whose label map, if it has one, is the heap cell addr
MergeArguments(pod, vct, scenario, addr) ==
    { [PodTemplate |-> p, VolumeClaimTemplate |-> v, Scenario |-> sc,
       Zone |-> [MatchLabels |-> ref], Fingerprint |-> NoFingerprint, Index |-> 0] :
        p \in {"", pod}, v \in {"", vct}, sc \in {"", scenario}, ref \in {NilMap, addr} }

InitMerge ==
    /\ \E d \in MergeArguments("podA", "vctA", "NodeMonopoly", 1),
          s \in MergeArguments("podB", "vctB", "ZoneMonopoly", 2),
          dl, sl \in LabelMaps :
          /\ dst = d /\ src = s
          /\ heap = << IF d.Zone.MatchLabels = NilMap THEN EmptyLabels ELSE dl,
                       IF s.Zone.MatchLabels = NilMap THEN EmptyLabels ELSE sl >>
    /\ pre = [dst |-> Labels(heap, dst.Zone.MatchLabels),
              src |-> Labels(heap, src.Zone.MatchLabels)]
    /\ post = <<>>
    /\ pc = "call"
    /\ chi = <<>> /\ input = Idle /\ first = Idle
    /\ deploymentNumber = EmptyNamedNumber /\ passes = 0

CallDeploymentMergeFrom ==
    /\ pc = "call"
    /\ LET r == deploymentMergeFrom(heap, dst, src)
       IN /\ heap' = r.heap
          /\ dst' = r.d
          /\ post' = [dst |-> Labels(r.heap, r.d.Zone.MatchLabels),
                      src |-> Labels(r.heap, src.Zone.MatchLabels)]
    /\ pc' = "merged"
    /\ UNCHANGED <<src, pre, chi, input, first, deploymentNumber, passes>>

\* d.Zone.MatchLabels[k] = v on a non-nil map
StoreLabel(ref, k, v) ==
    [heap EXCEPT ![ref] = [x \in DOMAIN @ \cup {k} |-> IF x = k THEN v ELSE @[x]]]

\* delete(d.Zone.MatchLabels, k)
RemoveLabel(ref, k) ==
    [heap EXCEPT ![ref] = [x \in DOMAIN @ \ {k} |-> @[x]]]

ChangeLabels(d, done) ==
    /\ pc = "merged"
    /\ d.Zone.MatchLabels # NilMap
    /\ \E k \in LabelKeys :
          \/ \E v \in LabelValues : heap' = StoreLabel(d.Zone.MatchLabels, k, v)
          \/ heap' = RemoveLabel(d.Zone.MatchLabels, k)
    /\ pc' = done
    /\ UNCHANGED <<dst, src, pre, post, chi, input, first, deploymentNumber, passes>>

ChangeDstLabels == ChangeLabels(dst, "dstChanged")

ChangeSrcLabels == ChangeLabels(src, "srcChanged")

NextMerge == CallDeploymentMergeFrom \/ ChangeDstLabels \/ ChangeSrcLabels

SpecMerge == InitMerge /\ [][NextMerge]_vars

---------------------------------------------------------------------------
(* C5: deploymentMergeFrom treats Zone as one field. With a label in         *)
(* dst.Zone before the call, dst.Zone is unchanged; with none, dst.Zone      *)
(* equals src.Zone as a whole and is a copy of its own: a later change of    *)
(* either label set leaves the other as it was.                              *)

DstLabels == Labels(heap, dst.Zone.MatchLabels)

SrcLabels == Labels(heap, src.Zone.MatchLabels)

\* C5: labelled dst.Zone unchanged by the merge; unlabelled dst.Zone becomes src.Zone as
\* a whole; changing either label set afterwards leaves the other unchanged
C5_ZoneMergedAsOneField ==
    /\ pc = "merged" =>
          /\ DOMAIN pre.dst # {} => DstLabels = pre.dst
          /\ DOMAIN pre.dst = {} => DstLabels = pre.src
          /\ SrcLabels = pre.src
    /\ pc = "dstChanged" => SrcLabels = post.src
    /\ pc = "srcChanged" => DstLabels = post.dst

\* dst took over src's labels and src's owner then changed src's label set
C5_Witness ==
    /\ pc = "srcChanged"
    /\ DOMAIN pre.dst = {}
    /\ DOMAIN pre.src = LabelKeys
    /\ post.dst = pre.src
    /\ SrcLabels # post.src
    /\ DstLabels = post.dst


\* The same at every level of a normalized tree: no two Deployments of the installation
\* (defaults, clusters, shards, replicas) hold a reference to the same label map.
\* <<0, 0, 0>> is the defaults, <<i, 0, 0>> a cluster, <<i, j, 0>> a shard.
DeploymentPositions(t) ==
    {<<0, 0, 0>>}
    \cup {<<i, 0, 0>> : i \in 1..Len(ClustersOf(t))}
    \cup {<<p[1], p[2], 0>> : p \in ShardPositions(t)}
    \cup ReplicaPositions(t)

DeploymentAt(t, p) ==
    IF p[1] = 0 THEN t.Spec.Defaults.Deployment
    ELSE IF p[2] = 0 THEN ClustersOf(t)[p[1]].Deployment
    ELSE IF p[3] = 0 THEN ShardAt(t, p).Deployment
    ELSE ReplicaAt(t, p).Deployment

NoSharedLabelMaps ==
    pc = "chi" =>
        \A p, q \in DeploymentPositions(chi) :
            (p # q /\ DeploymentAt(chi, p).Zone.MatchLabels # NilMap) =>
                DeploymentAt(chi, p).Zone.MatchLabels # DeploymentAt(chi, q).Zone.MatchLabels

====
